---- MODULE Spec2Model ----
(***************************************************************************)
(* Model of zero2prod's email client (src/src/email_client.rs) and of the  *)
(* subscribe route (src/src/routes/subscriptions.rs).                      *)
(*                                                                         *)
(* One EmailClient is constructed by EmailClient::new; send_email is       *)
(* called on it by up to MaxCalls callers whose calls interleave.  A call  *)
(* runs from its start to the .await of the HTTP exchange in one step      *)
(* (send_email), and finishes in a second step when the response arrives   *)
(* (receive) or when the client's timeout elapses (timeout_elapsed).       *)
(* Time is counted in seconds and moves from event to event (Advance).     *)
(***************************************************************************)
EXTENDS Integers, Sequences, FiniteSets, Bags, TLC

\* ------------------------------------------------------------ bounds
\* Number of send_email calls (callers) in a behaviour.
MaxCalls == 2

CallIds == 1..MaxCalls

\* ------------------------------------------------------------ inputs
\* Base URLs handed to EmailClient::new: one well-formed, one without a scheme,
\* one with a scheme and an empty host.
BaseUrls == {"http://127.0.0.1:8025", "not a url", "http://"}

\* SubscriberEmail values (validated addresses; as_ref() yields the string).
SenderEmails == {"noreply@example.com"}

\* API key pairs (public, private).
KeyPairs == {<<"pub-1", "priv-1">>, <<"pub-2", "priv-2">>}

\* (recipient, subject, html_content, text_content) of a send_email call.
SendArgs ==
    { [recipient |-> "ursula@example.com", subject |-> "Welcome",
       html_content |-> "<p>Hi</p>", text_content |-> "Hi"],
      [recipient |-> "bob@example.com", subject |-> "",
       html_content |-> "", text_content |-> ""] }

\* What the server does with a request: the status of the final response the
\* client gets and the seconds it takes.  Success, a 3xx that the redirect
\* policy does not follow (304 Not Modified), a client error, a server error
\* after 3 seconds, and a success held back for 3 minutes.
ServerPlans ==
    { [status |-> 200, delay |-> 0],
      [status |-> 304, delay |-> 0],
      [status |-> 404, delay |-> 0],
      [status |-> 500, delay |-> 3],
      [status |-> 200, delay |-> 180] }

\* Forms the framework hands to subscribe.
Forms == { [email |-> "ursula@example.com", name |-> "Ursula"],
           [email |-> "", name |-> ""] }

\* ------------------------------------------------------------ constants
\* Client::builder().timeout(Duration::from_secs(10)), in seconds.
Timeout == 10

\* Option<T>: None is the empty sequence, Some(x) the sequence of x alone.
None == <<>>
Some(x) == <<x>>

\* ------------------------------------------------------------ field names
\* Rust field names and JSON keys are sequences of characters, so that serde's
\* renaming is computed on them.
Lower == <<"a","b","c","d","e","f","g","h","i","j","k","l","m",
           "n","o","p","q","r","s","t","u","v","w","x","y","z">>
Upper == <<"A","B","C","D","E","F","G","H","I","J","K","L","M",
           "N","O","P","Q","R","S","T","U","V","W","X","Y","Z">>

to_ascii_uppercase(ch) ==
    IF \E i \in DOMAIN Lower : Lower[i] = ch
    THEN Upper[CHOOSE i \in DOMAIN Lower : Lower[i] = ch]
    ELSE ch

f_from      == <<"f","r","o","m">>
f_to        == <<"t","o">>
f_subject   == <<"s","u","b","j","e","c","t">>
f_text_part == <<"t","e","x","t","_","p","a","r","t">>
f_html_part == <<"h","t","m","l","_","p","a","r","t">>
f_email     == <<"e","m","a","i","l">>
f_name      == <<"n","a","m","e">>
f_messages  == <<"m","e","s","s","a","g","e","s">>

\* serde's RenameRule::PascalCase applied to a field name: the first character
\* and every character after a '_' is upper-cased, the '_' is dropped.
RECURSIVE PascalFrom(_, _, _)
PascalFrom(field, i, capitalize) ==
    IF i > Len(field) THEN <<>>
    ELSE IF field[i] = "_" THEN PascalFrom(field, i + 1, TRUE)
    ELSE IF capitalize
         THEN <<to_ascii_uppercase(field[i])>> \o PascalFrom(field, i + 1, FALSE)
         ELSE <<field[i]>> \o PascalFrom(field, i + 1, FALSE)

PascalCase(field) == PascalFrom(field, 1, TRUE)

\* The wire name of a field of each struct: only Message carries
\* #[serde(rename_all = "PascalCase")].
Message_rename(field) == PascalCase(field)

Sender_rename(field) == field

Recipient_rename(field) == field

\* Faulty variant: rename_all = "PascalCase" on Messages as well.
Messages_rename_pascal(field) == PascalCase(field)
Messages_rename(field) == field

\* ------------------------------------------------------------ JSON
\* A JSON object is the sequence of its <<key, value>> members, in the order
\* serde writes them (the struct's field order); an array is a sequence.
Has(obj, key) == \E i \in DOMAIN obj : obj[i][1] = key
Get(obj, key) == obj[CHOOSE i \in DOMAIN obj : obj[i][1] = key][2]
Keys(obj) == { obj[i][1] : i \in DOMAIN obj }

Serialize_Sender(s) ==
    << <<Sender_rename(f_email), s.email>>, <<Sender_rename(f_name), s.name>> >>

Serialize_Recipient(r) ==
    << <<Recipient_rename(f_email), r.email>>,
       <<Recipient_rename(f_name), r.name>> >>

NonEmptyMembers(members) == SelectSeq(members, LAMBDA m : m[2] # "")

\* Faulty variant: the String members are skipped when empty.
Serialize_Message_skip_empty(m) ==
    << <<Message_rename(f_from), Serialize_Sender(m.from)>>,
       <<Message_rename(f_to),
         [i \in DOMAIN m.to |-> Serialize_Recipient(m.to[i])]>> >>
    \o NonEmptyMembers(<< <<Message_rename(f_subject), m.subject>>,
                          <<Message_rename(f_text_part), m.text_part>>,
                          <<Message_rename(f_html_part), m.html_part>> >>)
Serialize_Message(m) ==
    << <<Message_rename(f_from), Serialize_Sender(m.from)>>,
       <<Message_rename(f_to),
         [i \in DOMAIN m.to |-> Serialize_Recipient(m.to[i])]>>,
       <<Message_rename(f_subject), m.subject>>,
       <<Message_rename(f_text_part), m.text_part>>,
       <<Message_rename(f_html_part), m.html_part>> >>

Serialize_Messages(ms) ==
    << <<Messages_rename(f_messages),
         [i \in DOMAIN ms.messages |-> Serialize_Message(ms.messages[i])]>> >>

\* ------------------------------------------------------------ URLs
\* url::Url::parse on the strings the model hands it.  A string with no scheme
\* is a relative URL without a base; "http://" has an empty host; in
\* "http:///email" the parser skips the extra slash of a special scheme and
\* reads "email" as the host.
Url_parse(s) ==
    CASE s = "http://127.0.0.1:8025" ->
            [ok |-> TRUE, url |-> "http://127.0.0.1:8025/", err |-> ""]
      [] s = "http://127.0.0.1:8025/email" ->
            [ok |-> TRUE, url |-> "http://127.0.0.1:8025/email", err |-> ""]
      [] s = "http:///email" ->
            [ok |-> TRUE, url |-> "http://email/", err |-> ""]
      [] s = "http://" ->
            [ok |-> FALSE, url |-> "", err |-> "EmptyHost"]
      [] OTHER ->
            [ok |-> FALSE, url |-> "", err |-> "RelativeUrlWithoutBase"]

\* Url::join of "email" onto a parsed base: the last path segment is replaced.
Url_join_email(base) ==
    CASE base = "http://127.0.0.1:8025/" -> "http://127.0.0.1:8025/email"
      [] base = "http://127.0.0.1:8025/email" -> "http://127.0.0.1:8025/email"
      [] base = "http://email/" -> "http://email/email"

\* EmailClient::create_url: never called by send_email (its call is commented
\* out); its error type is url::ParseError.
create_url(self) ==
    LET base == Url_parse(self.base_url)
    IN  IF base.ok
        THEN [ok |-> TRUE, url |-> Url_join_email(base.url), err |-> ""]
        ELSE [ok |-> FALSE, url |-> "", err |-> "UrlFormat"]

\* ------------------------------------------------------------ results
\* Result<(), reqwest::Error>.  The kinds of error told apart: "Builder" (the
\* request could not be built), "Connect" (transport), "Timeout" (is_timeout())
\* and "Status" (is_status(), with the status code; 0 stands for no code).
Ok == [tag |-> "Ok", kind |-> "", status |-> 0]
Err(kind, status) == [tag |-> "Err", kind |-> kind, status |-> status]
NoResult == [tag |-> "Pending", kind |-> "", status |-> 0]

\* Response::error_for_status: an error of the status kind, carrying the code,
\* when the status is a client error (4xx) or a server error (5xx).
\* Faulty variants: only 5xx is an error; no status is an error.
error_for_status_server_only(status) ==
    IF status >= 500 /\ status <= 599 THEN Err("Status", status) ELSE Ok
error_for_status_missing(status) == Ok
error_for_status(status) ==
    IF (status >= 400 /\ status <= 499) \/ (status >= 500 /\ status <= 599)
    THEN Err("Status", status)
    ELSE Ok

\* ------------------------------------------------------------ state
VARIABLES
    client,      \* the EmailClient, None before EmailClient::new
    pc,          \* per call: "idle", "awaiting" (at .send().await) or "done"
    args,        \* per call: the arguments of send_email, None while idle
    plan,        \* per call: the status and delay of the response on its way
    elapsed,     \* per call: seconds since its request was sent
    received,    \* per call: the status of the response it got, None if none
    result,      \* per call: what send_email returned
    wire,        \* bag of the HTTP requests issued, each with its call
    subscribed   \* the last form subscribe handled and its response

vars == <<client, pc, args, plan, elapsed, received, result, wire, subscribed>>

\* ------------------------------------------------------------ EmailClient
\* EmailClient::new: stores its arguments and an HTTP client with a timeout
\* of Timeout seconds.  It does not look at base_url.
\* Faulty variant: the HTTP client is built without a timeout.
EmailClient_new_no_timeout(base_url, sender, api_public_key, api_private_key) ==
    [ timeout |-> None, base_url |-> base_url, sender |-> sender,
      api_public_key |-> api_public_key, api_private_key |-> api_private_key ]
EmailClient_new(base_url, sender, api_public_key, api_private_key) ==
    [ timeout |-> Some(Timeout), base_url |-> base_url, sender |-> sender,
      api_public_key |-> api_public_key, api_private_key |-> api_private_key ]

\* &self of the calls: the constructed client.
Self == client[1]

\* format!("{}/email", self.base_url)
format_url(self) == self.base_url \o "/email"

\* The calls that have started, in call order.
RECURSIVE StartedUpTo(_)
StartedUpTo(n) ==
    IF n = 0 THEN <<>>
    ELSE StartedUpTo(n - 1) \o (IF pc[n] # "idle" THEN <<n>> ELSE <<>>)

\* The Message send_email builds: the client's sender, one recipient, the
\* subject and the two bodies.
\* Faulty variant: the recipients of the calls started so far stay in the list.
new_message_shared_recipients(self, a) ==
    [ from |-> [email |-> self.sender, name |-> "sender"],
      to |-> [i \in DOMAIN StartedUpTo(MaxCalls) |->
                 [email |-> args[StartedUpTo(MaxCalls)[i]][1].recipient,
                  name |-> "recipient"]]
             \o << [email |-> a.recipient, name |-> "recipient"] >>,
      subject |-> a.subject,
      text_part |-> a.text_content,
      html_part |-> a.html_content ]
new_message(self, a) ==
    [ from |-> [email |-> self.sender, name |-> "sender"],
      to |-> << [email |-> a.recipient, name |-> "recipient"] >>,
      subject |-> a.subject,
      text_part |-> a.text_content,
      html_part |-> a.html_content ]

\* Messages { messages: vec![message] }
new_request_body(message) == [messages |-> <<message>>]

\* RequestBuilder::basic_auth(public key, Some(private key))
\* Faulty variant: the keys are swapped.
basic_auth_swapped(self) ==
    [ scheme |-> "Basic", username |-> self.api_private_key,
      password |-> self.api_public_key ]
basic_auth(self) ==
    [ scheme |-> "Basic", username |-> self.api_public_key,
      password |-> self.api_private_key ]

\* http_client.post(url): the URL string is parsed; a string that is no URL
\* makes the builder carry an error of reqwest's builder kind, which send()
\* returns without issuing anything.
\* Faulty variant: the URL is not parsed.
post_unchecked(url) == Ok
post(url) == IF Url_parse(url).ok THEN Ok ELSE Err("Builder", 0)

\* The request send_email hands to send(): POST, basic auth, JSON body.
build_request(self, a) ==
    [ method |-> "POST",
      url |-> format_url(self),
      auth |-> basic_auth(self),
      content_type |-> "application/json",
      body |-> Serialize_Messages(new_request_body(new_message(self, a))) ]

\* send(): the request goes on the wire, once.
\* Faulty variant: a request equal to one already issued is not sent again.
issue_deduplicated(w, entry) ==
    IF \E e \in BagToSet(w) : e.request = entry.request
    THEN w ELSE w (+) SetToBag({entry})
issue(w, entry) == w (+) SetToBag({entry})

\* ------------------------------------------------------------ subscribe
\* subscribe(_form): HttpResponse::Ok().finish()
\* Faulty variant: a form with an empty field is rejected.
subscribe_validating(form) ==
    IF form.email = "" \/ form.name = ""
    THEN [status |-> 400, body |-> ""]
    ELSE [status |-> 200, body |-> ""]
subscribe(form) == [status |-> 200, body |-> ""]

\* ------------------------------------------------------------ Init
Init ==
    /\ client = None
    /\ pc = [c \in CallIds |-> "idle"]
    /\ args = [c \in CallIds |-> None]
    /\ plan = [c \in CallIds |-> None]
    /\ elapsed = [c \in CallIds |-> 0]
    /\ received = [c \in CallIds |-> None]
    /\ result = [c \in CallIds |-> NoResult]
    /\ wire = EmptyBag
    /\ subscribed = None

\* ------------------------------------------------------------ actions
New ==
    /\ client = None
    /\ \E base_url \in BaseUrls, sender \in SenderEmails, keys \in KeyPairs :
          client' = Some(EmailClient_new(base_url, sender, keys[1], keys[2]))
    /\ UNCHANGED <<pc, args, plan, elapsed, received, result, wire, subscribed>>

\* send_email from its start to .send().await: the request is built; a URL
\* that does not parse ends the call; otherwise the connection fails, or the
\* request is issued and the call waits for the server.
send_email(c) ==
    /\ client # None
    /\ pc[c] = "idle"
    /\ \E a \in SendArgs :
       LET request == build_request(Self, a)
           builder == post(request.url)
       IN  /\ args' = [args EXCEPT ![c] = Some(a)]
           /\ IF builder # Ok
              THEN /\ result' = [result EXCEPT ![c] = builder]
                   /\ pc' = [pc EXCEPT ![c] = "done"]
                   /\ UNCHANGED <<plan, wire>>
              ELSE \/ /\ result' = [result EXCEPT ![c] = Err("Connect", 0)]
                      /\ pc' = [pc EXCEPT ![c] = "done"]
                      /\ UNCHANGED <<plan, wire>>
                   \/ /\ wire' = issue(wire, [call |-> c, request |-> request])
                      /\ \E p \in ServerPlans : plan' = [plan EXCEPT ![c] = Some(p)]
                      /\ pc' = [pc EXCEPT ![c] = "awaiting"]
                      /\ UNCHANGED result
    /\ UNCHANGED <<client, elapsed, received, subscribed>>

\* The moment, in seconds after the request, at which an awaiting call ends:
\* the server's delay or the client's timeout, whichever comes first.
Due(c) ==
    IF Self.timeout # None /\ Self.timeout[1] < plan[c][1].delay
    THEN Self.timeout[1] ELSE plan[c][1].delay

Awaiting == {c \in CallIds : pc[c] = "awaiting"}

\* The response arrives before the timeout: error_for_status decides.
receive(c) ==
    /\ pc[c] = "awaiting"
    /\ elapsed[c] = plan[c][1].delay
    /\ Self.timeout # None => elapsed[c] < Self.timeout[1]
    /\ received' = [received EXCEPT ![c] = Some(plan[c][1].status)]
    /\ result' = [result EXCEPT ![c] = error_for_status(plan[c][1].status)]
    /\ pc' = [pc EXCEPT ![c] = "done"]
    /\ UNCHANGED <<client, args, plan, elapsed, wire, subscribed>>

\* The timeout elapses first: send() fails with a timeout error.
timeout_elapsed(c) ==
    /\ pc[c] = "awaiting"
    /\ Self.timeout # None
    /\ elapsed[c] = Self.timeout[1]
    /\ result' = [result EXCEPT ![c] = Err("Timeout", 0)]
    /\ pc' = [pc EXCEPT ![c] = "done"]
    /\ UNCHANGED <<client, args, plan, elapsed, received, wire, subscribed>>

\* The connection breaks while the call waits: send() fails with a transport
\* error, the request having been issued; no response will come.
connection_lost(c) ==
    /\ pc[c] = "awaiting"
    /\ result' = [result EXCEPT ![c] = Err("Connect", 0)]
    /\ pc' = [pc EXCEPT ![c] = "done"]
    /\ plan' = [plan EXCEPT ![c] = None]
    /\ UNCHANGED <<client, args, elapsed, received, wire, subscribed>>

\* Time passes up to the next moment at which an awaiting call ends.
Advance ==
    /\ Awaiting # {}
    /\ \A c \in Awaiting : elapsed[c] < Due(c)
    /\ LET step == CHOOSE n \in {Due(c) - elapsed[c] : c \in Awaiting} :
                      \A c \in Awaiting : n <= Due(c) - elapsed[c]
       IN  elapsed' = [c \in CallIds |->
                          IF c \in Awaiting THEN elapsed[c] + step ELSE elapsed[c]]
    /\ UNCHANGED <<client, pc, args, plan, received, result, wire, subscribed>>

\* The framework calls subscribe with a deserialized form.
Subscribe ==
    /\ \E form \in Forms :
          subscribed' = Some([form |-> form, response |-> subscribe(form)])
    /\ UNCHANGED <<client, pc, args, plan, elapsed, received, result, wire>>

Next ==
    \/ New
    \/ \E c \in CallIds : send_email(c)
    \/ \E c \in CallIds : receive(c)
    \/ \E c \in CallIds : timeout_elapsed(c)
    \/ \E c \in CallIds : connection_lost(c)
    \/ Advance
    \/ Subscribe

Spec == Init /\ [][Next]_vars

\* ------------------------------------------------------------ observers
Done(c) == pc[c] = "done"

\* The requests call c has put on the wire, and how many.
EntriesOf(c) == {e \in BagToSet(wire) : e.call = c}
RequestsOf(c) == BagCardinality([e \in EntriesOf(c) |-> wire[e]])

IsSuccess(status) == status >= 200 /\ status <= 299
IsErrorStatus(status) == status >= 400 /\ status <= 599

\* The call got a response, or ran into the timeout: the outcomes in which a
\* request was accepted by the transport.
Exchanged(c) ==
    \/ pc[c] = "awaiting"
    \/ Done(c) /\ (result[c] = Ok \/ result[c].kind \in {"Status", "Timeout"})

\* JSON keys as the wire shows them.
key_Messages == <<"M","e","s","s","a","g","e","s">>
key_From     == <<"F","r","o","m">>
key_To       == <<"T","o">>
key_Subject  == <<"S","u","b","j","e","c","t">>
key_TextPart == <<"T","e","x","t","P","a","r","t">>
key_HtmlPart == <<"H","t","m","l","P","a","r","t">>
key_Email    == <<"E","m","a","i","l">>
key_Name     == <<"N","a","m","e">>

Capitalized(key) == Len(key) > 0 /\ \E i \in DOMAIN Upper : Upper[i] = key[1]

\* The parts of a request body: the value of its only top-level member, the
\* first message, its sender object and its recipient objects.
MessagesOf(body) == body[1][2]
FirstMessage(body) == MessagesOf(body)[1]
FromOf(message) == message[1][2]
ToOf(message) == message[2][2]

\* ------------------------------------------------------------ C1
\* C1 as stated: whenever a call got a response whose status is not 2xx, it
\* returned an error of the status kind carrying that status.
C1_NonSuccessStatusIsStatusError ==
    \A c \in CallIds :
        (Done(c) /\ received[c] # None /\ ~IsSuccess(received[c][1]))
            => result[c] = Err("Status", received[c][1])

\* C1 amended: whenever a call got a response whose status is 4xx or 5xx, it
\* returned an error, never Ok, of the status kind carrying that status; and an
\* error of the status kind is returned in no other case (it is told apart
\* from a transport or timeout error).
C1_ErrorStatusIsStatusError ==
    \A c \in CallIds :
        /\ (Done(c) /\ received[c] # None /\ IsErrorStatus(received[c][1]))
              => /\ result[c] # Ok
                 /\ result[c] = Err("Status", received[c][1])
        /\ result[c].kind = "Status"
              => /\ received[c] # None
                 /\ IsErrorStatus(received[c][1])
                 /\ result[c].status = received[c][1]

C1_Witness ==
    \E c, d \in CallIds :
        /\ Done(c) /\ received[c] = Some(500) /\ result[c] = Err("Status", 500)
        /\ Done(d) /\ received[d] = Some(404) /\ result[d] = Err("Status", 404)

\* ------------------------------------------------------------ C2
\* C2 as stated: a finished call returned Ok exactly when it got a 2xx
\* response before the timeout.
C2_OkIffSuccessStatus ==
    \A c \in CallIds :
        Done(c) => (result[c] = Ok
                       <=> (received[c] # None /\ IsSuccess(received[c][1])))

\* C2 amended: a finished call returned Ok exactly when it got, before the
\* timeout, a response whose status is not 4xx or 5xx; every other finished
\* call returned an error, and a call that has not finished has no result.
C2_OkIffNoErrorStatus ==
    \A c \in CallIds :
        /\ Done(c) => /\ result[c].tag \in {"Ok", "Err"}
                      /\ result[c] = Ok
                            <=> (received[c] # None
                                   /\ ~IsErrorStatus(received[c][1]))
                      /\ result[c].tag = "Err" => result[c].kind # ""
                      /\ received[c] # None => elapsed[c] < Timeout
        /\ ~Done(c) => result[c] = NoResult

C2_Witness ==
    \E c, d \in CallIds :
        /\ Done(c) /\ received[c] = Some(200) /\ result[c] = Ok
        /\ Done(d) /\ received[d] = None /\ result[d].tag = "Err"

\* ------------------------------------------------------------ C3
\* C3: a call whose response would take longer than the client's timeout ends
\* (unless its connection broke first) when the timeout elapses, with a timeout
\* error and without having got the response; no call waits beyond the timeout; the call has issued one request
\* only (no retry); and a timeout error, once returned, stays the call's result.
C3_TimesOutWithoutWaiting ==
    /\ [](\A c \in CallIds :
            /\ pc[c] = "awaiting" => elapsed[c] <= Timeout
            /\ (Done(c) /\ plan[c] # None /\ plan[c][1].delay > Timeout)
                  => /\ result[c] = Err("Timeout", 0)
                     /\ received[c] = None
                     /\ elapsed[c] = Timeout
                     /\ RequestsOf(c) = 1)
    /\ [][\A c \in CallIds :
            result[c] = Err("Timeout", 0)
                => /\ result'[c] = result[c]
                   /\ pc'[c] = "done"
                   /\ received'[c] = None
                   /\ RequestsOf(c)' = RequestsOf(c)]_vars

C3_Witness ==
    \E c \in CallIds :
        /\ Done(c) /\ plan[c] # None /\ plan[c][1].delay = 180
        /\ plan[c][1].status = 200
        /\ result[c] = Err("Timeout", 0)

\* ------------------------------------------------------------ C4
\* C4: every call that got a response (2xx or not) or timed out has issued
\* exactly one request, a POST to base_url + "/email"; and for every argument
\* tuple, the requests on the wire from calls with these arguments are as many
\* as these calls.
C4_OneRequestPerCall ==
    /\ \A c \in CallIds :
          Exchanged(c)
              => /\ RequestsOf(c) = 1
                 /\ \A e \in EntriesOf(c) :
                       /\ e.request.method = "POST"
                       /\ e.request.url = Self.base_url \o "/email"
    /\ \A a \in SendArgs :
          LET callers == {c \in CallIds : Exchanged(c) /\ args[c] = Some(a)}
              sent == {e \in BagToSet(wire) : e.call \in callers}
          IN  BagCardinality([e \in sent |-> wire[e]]) = Cardinality(callers)

C4_Witness ==
    \E c, d \in CallIds :
        /\ c # d /\ args[c] = args[d] /\ args[c] # None
        /\ Done(c) /\ result[c] = Ok
        /\ Done(d) /\ result[d] = Err("Timeout", 0)
        /\ BagCardinality(wire) >= 2
        /\ \E e \in EntriesOf(c), g \in EntriesOf(d) : e.request = g.request

\* ------------------------------------------------------------ C5
\* C5: every request on the wire carries Basic authentication whose username is
\* the client's public key and whose password is its private key.
C5_BasicAuthWithConfiguredKeys ==
    \A e \in BagToSet(wire) :
        /\ e.request.auth.scheme = "Basic"
        /\ e.request.auth.username = Self.api_public_key
        /\ e.request.auth.password = Self.api_private_key

C5_Witness ==
    /\ \A c \in CallIds : RequestsOf(c) = 1
    /\ Self.api_public_key = "pub-2"

\* ------------------------------------------------------------ C6
\* C6: the body of every request holds exactly one message; the message has
\* exactly one recipient, the client's sender as the sender's email, the call's
\* recipient as the recipient's email, and its Subject, HtmlPart and TextPart
\* members, whatever the subject and the bodies are.
C6_OneMessageOneRecipient ==
    \A e \in BagToSet(wire) :
        LET body == e.request.body
        IN  /\ Len(body) = 1
            /\ Len(MessagesOf(body)) = 1
            /\ LET m == FirstMessage(body)
               IN  /\ Has(m, key_From) /\ Has(m, key_To)
                   /\ Len(Get(m, key_To)) = 1
                   /\ Get(Get(m, key_From), f_email) = Self.sender
                   /\ Get(Get(m, key_To)[1], f_email) = args[e.call][1].recipient
                   /\ Has(m, key_Subject)
                   /\ Has(m, key_HtmlPart)
                   /\ Has(m, key_TextPart)
                   /\ Get(m, key_Subject) = args[e.call][1].subject
                   /\ Get(m, key_HtmlPart) = args[e.call][1].html_content
                   /\ Get(m, key_TextPart) = args[e.call][1].text_content

C6_Witness ==
    \E e \in BagToSet(wire) :
        /\ args[e.call][1].subject = ""
        /\ args[e.call][1].html_content = ""
        /\ args[e.call][1].text_content = ""
        /\ Get(FirstMessage(e.request.body), key_Subject) = ""

\* ------------------------------------------------------------ C7
\* C7 as stated: every key of the body, at every level, starts with a capital
\* letter: "Messages" at the top, "Email" and "Name" in the sender and
\* recipient objects.
C7_EveryKeyCapitalized ==
    \A e \in BagToSet(wire) :
        LET body == e.request.body
            m == FirstMessage(body)
        IN  /\ \A k \in Keys(body) : Capitalized(k)
            /\ \A k \in Keys(m) : Capitalized(k)
            /\ \A k \in Keys(FromOf(m)) : Capitalized(k)
            /\ \A i \in DOMAIN ToOf(m) : \A k \in Keys(ToOf(m)[i]) : Capitalized(k)
            /\ Keys(body) = {key_Messages}
            /\ Keys(FromOf(m)) = {key_Email, key_Name}

\* C7 amended: the keys of the message object are "From", "To", "Subject",
\* "TextPart" and "HtmlPart"; the top-level key is "messages" and the sender and
\* recipient objects use "email" and "name", in lower case.
C7_OnlyMessageKeysCapitalized ==
    \A e \in BagToSet(wire) :
        LET body == e.request.body
            m == FirstMessage(body)
        IN  /\ Keys(body) = {f_messages}
            /\ Keys(m) = {key_From, key_To, key_Subject, key_TextPart, key_HtmlPart}
            /\ \A k \in Keys(m) : Capitalized(k)
            /\ Keys(FromOf(m)) = {f_email, f_name}
            /\ \A i \in DOMAIN ToOf(m) : Keys(ToOf(m)[i]) = {f_email, f_name}

C7_Witness ==
    \E e \in BagToSet(wire) :
        /\ Has(e.request.body, f_messages)
        /\ Has(FirstMessage(e.request.body), key_TextPart)
        /\ Has(FromOf(FirstMessage(e.request.body)), f_email)

\* ------------------------------------------------------------ C8
\* C8 as stated: with a base URL that is no valid URL (create_url's check),
\* every finished call returned an error of the URL-format kind and no request
\* was issued.
C8_InvalidBaseUrlIsUrlFormatError ==
    (client # None /\ ~create_url(Self).ok)
        => /\ wire = EmptyBag
           /\ \A c \in CallIds : Done(c) => result[c] = Err("UrlFormat", 0)

\* C8 amended: when base_url + "/email" does not parse as a URL, the client
\* is constructed all the same, every call ends at once with an error of
\* the builder kind, and no request is issued.
C8_UnparsableUrlIsBuilderError ==
    (client # None /\ ~Url_parse(Self.base_url \o "/email").ok)
        => /\ wire = EmptyBag
           /\ \A c \in CallIds :
                 /\ pc[c] # "awaiting"
                 /\ Done(c) => result[c] = Err("Builder", 0)
                 /\ received[c] = None

C8_Witness ==
    /\ client # None
    /\ Self.base_url = "not a url"
    /\ ~create_url(Self).ok
    /\ \A c \in CallIds : Done(c) /\ result[c] = Err("Builder", 0)

\* ------------------------------------------------------------ C9
\* C9: subscribe answers every form with status 200 and an empty body, and a
\* step of subscribe issues no request and changes no call of the email client.
C9_SubscribeAlwaysOk ==
    /\ [](subscribed # None
            => /\ subscribed[1].response.status = 200
               /\ subscribed[1].response.body = "")
    /\ [][subscribed' # subscribed
            => /\ wire' = wire
               /\ pc' = pc
               /\ result' = result
               /\ client' = client]_vars

C9_Witness ==
    /\ subscribed # None
    /\ subscribed[1].form.email = ""
    /\ subscribed[1].form.name = ""
    /\ subscribed[1].response.status = 200
    /\ client # None

\* ------------------------------------------------------------ C10
\* C10: the client, once constructed, never changes; two calls with the same
\* arguments issue the same request, whatever the other calls are doing; two
\* calls that got the same response returned the same result; and no step of
\* another call changes the request or the result of a finished call.
C10_CallsIndependent ==
    /\ [](\A c, d \in CallIds :
            /\ (args[c] # None /\ args[c] = args[d])
                  => \A e \in EntriesOf(c), g \in EntriesOf(d) :
                        e.request = g.request
            /\ (Done(c) /\ Done(d) /\ received[c] # None
                  /\ received[c] = received[d])
                  => result[c] = result[d])
    /\ [][/\ client # None => client' = client
          /\ \A c \in CallIds :
                Done(c) => /\ result'[c] = result[c]
                           /\ received'[c] = received[c]
                           /\ EntriesOf(c)' = EntriesOf(c)]_vars

C10_Witness ==
    \E c, d \in CallIds :
        /\ c # d
        /\ args[c] # None /\ args[c] = args[d]
        /\ pc[c] = "awaiting" /\ elapsed[c] = Timeout
        /\ Done(d) /\ result[d] = Ok
        /\ RequestsOf(c) = 1 /\ RequestsOf(d) = 1

====
